---- MODULE Spec2Model ----
(***************************************************************************)
(* Model of the decision logic of app.py: the diagnosis scoring of         *)
(* POST /result, the quest step normalization of quest_do, and the kai      *)
(* deduplication of find_similar_kai.                                       *)
(*                                                                          *)
(* Python strings whose characters matter (step titles, options, numeric    *)
(* strings, kai names) are sequences of one-character strings; strings that *)
(* are only compared as a whole (type keys, choice labels) are TLA+ strings.*)
(***************************************************************************)
EXTENDS Integers, Sequences, FiniteSets, TLC

VARIABLES
    gemini_available,   \* module flag set at import (app.py:38-47)
    pc,                 \* position of the POST /result request
    request,            \* the submitted form: question index -> choice label
    raw,                \* raw scores computed by the request in progress
    reply,              \* what gemini_generate_json returned to the request
    results,            \* DiagnosisResult rows, in creation order
    outcome,            \* how the POST /result request ended
    last,               \* the last result a page read: <<>> or <<row>>
    steps_json,         \* Quest.steps_json read by quest_do
    normalized_steps,   \* the list quest_do hands to the template
    spc,                \* position of the step normalization
    logs,               \* the KaiLog list handed to find_similar_kai
    kai_name,           \* the candidate name handed to find_similar_kai
    threshold,          \* the threshold, a rational <<numerator, denominator>>
    found,              \* what find_similar_kai returned (0: None, else a row id)
    kpc,                \* position of the find_similar_kai call
    kai_op,             \* the kai request served last: its handler, and whether it
                        \* counted its last name on a row of exactly that name
    progress,           \* QuestProgress rows of the user, in creation order
    now,                \* what datetime.utcnow() returns
    reqs,               \* the /quest/<id> requests: position and loaded row of each
    served,             \* the /quest/<id> request answered last, and the row it had loaded
    sm,                 \* a pair of strings and their two similarities
    journal,            \* the POST /journal/save request: its form and how far it got
    kreqs               \* the kai requests in flight: position and loaded count of each

vars == <<gemini_available, pc, request, raw, reply, results, outcome, last,
          steps_json, normalized_steps, spc, logs, kai_name, threshold, found, kpc,
          kai_op, progress, now, reqs, served, sm, journal, kreqs>>

scoreVars == <<gemini_available, pc, request, raw, reply, results, outcome, last>>
stepVars == <<steps_json, normalized_steps, spc>>
kaiVars == <<logs, kai_name, threshold, found, kpc, kai_op, journal, kreqs>>
progVars == <<progress, now, reqs, served>>

(***************************************************************************)
(* Bounds of the explored inputs.                                           *)
(***************************************************************************)
\* form fields that differ from the form's base label
MaxOverrides == 1
\* TypeKeys the collaborator's bonus_scores mentions
MaxBonusKeys == 2
\* keys a step dict holds
MaxStepKeys == 3
\* entries of a steps list
MaxSteps == 2
\* characters of a kai name
MaxNameLen == 2
\* rows of the KaiLog list
MaxLogs == 2

(***************************************************************************)
(* Python values                                                            *)
(***************************************************************************)
PyNone == [t |-> "none", n |-> 0, s |-> <<>>, l |-> <<>>]
\* a key that a dict does not hold (only dict.get(k, default) tells it from None)
PyAbsent == [t |-> "absent", n |-> 0, s |-> <<>>, l |-> <<>>]
PyInt(k) == [t |-> "int", n |-> k, s |-> <<>>, l |-> <<>>]
\* a float, held in tenths: PyFloat(27) is 2.7
PyFloat(k) == [t |-> "float", n |-> k, s |-> <<>>, l |-> <<>>]
PyStr(cs) == [t |-> "str", n |-> 0, s |-> cs, l |-> <<>>]
\* a list of strings
PyList(ss) == [t |-> "list", n |-> 0, s |-> <<>>, l |-> ss]

Digits == <<"0", "1", "2", "3", "4", "5", "6", "7", "8", "9">>
Whitespace == {" ", "\n", "\t", "\r"}

DigitValue(c) == (CHOOSE i \in 1..10 : Digits[i] = c) - 1
IsDigit(c) == \E i \in 1..10 : Digits[i] = c

RECURSIVE LStrip(_)
LStrip(cs) == IF cs # <<>> /\ Head(cs) \in Whitespace THEN LStrip(Tail(cs)) ELSE cs

RECURSIVE RStrip(_)
RStrip(cs) ==
    IF cs # <<>> /\ cs[Len(cs)] \in Whitespace
    THEN RStrip(SubSeq(cs, 1, Len(cs) - 1))
    ELSE cs

\* str.strip()
Strip(cs) == RStrip(LStrip(cs))

RECURSIVE DigitsValue(_, _)
DigitsValue(cs, acc) ==
    IF cs = <<>> THEN acc ELSE DigitsValue(Tail(cs), 10 * acc + DigitValue(Head(cs)))

\* int(str): surrounding whitespace, an optional sign, then decimal digits
ParseInt(cs) ==
    LET body == Strip(cs)
        signed == body # <<>> /\ Head(body) \in {"+", "-"}
        ds == IF signed THEN Tail(body) ELSE body
    IN IF ds = <<>> \/ \E i \in 1..Len(ds) : ~IsDigit(ds[i])
       THEN [ok |-> FALSE, n |-> 0]
       ELSE [ok |-> TRUE,
             n |-> IF signed /\ Head(body) = "-" THEN 0 - DigitsValue(ds, 0)
                   ELSE DigitsValue(ds, 0)]

\* int(v): ok = FALSE when Python raises (ValueError, TypeError)
ToInt(v) ==
    CASE v.t = "int" -> [ok |-> TRUE, n |-> v.n]
      [] v.t = "float" ->
            \* truncation toward zero of n/10
            [ok |-> TRUE, n |-> IF v.n >= 0 THEN v.n \div 10 ELSE 0 - ((0 - v.n) \div 10)]
      [] v.t = "str" -> ParseInt(v.s)
      [] OTHER -> [ok |-> FALSE, n |-> 0]

\* bool(v)
Truthy(v) ==
    CASE v.t = "int" -> v.n # 0
      [] v.t = "float" -> v.n # 0
      [] v.t = "str" -> v.s # <<>>
      [] v.t = "list" -> v.l # <<>>
      [] OTHER -> FALSE

(***************************************************************************)
(* Static data                                                              *)
(***************************************************************************)
TYPE_KEYS == <<"sage", "monk", "priest", "mage", "thief", "artist", "guardian", "commander">>

TypeKeySet == {TYPE_KEYS[i] : i \in 1..Len(TYPE_KEYS)}

\* faulty variant: neutral weighs nothing
CHOICE_TO_SCORE_Neutral0 == [yes |-> 3, maybe |-> 1, neutral |-> 0, no |-> 0]

CHOICE_TO_SCORE == [yes |-> 3, maybe |-> 1, neutral |-> 1, no |-> 0]

\* len(QUESTIONS)
NumQ == 32

\* QUESTION_TYPES; the entry of the 0-based question index i is QUESTION_TYPES[i + 1]
QUESTION_TYPES ==
    <<"sage", "sage", "sage", "sage",
      "monk", "monk", "monk", "monk",
      "priest", "priest", "priest", "priest",
      "mage", "mage", "mage", "mage",
      "thief", "thief", "thief", "thief",
      "artist", "artist", "artist", "artist",
      "guardian", "guardian", "guardian", "guardian",
      "commander", "commander", "commander", "commander">>

(***************************************************************************)
(* POST /result: raw scores                                                 *)
(***************************************************************************)
\* the marker of a form field the request does not carry
NoField == "<absent>"

\* request.form.get(f"q{i}", "no")
FormGet(form, i) == IF form[i] = NoField THEN "no" ELSE form[i]

\* CHOICE_TO_SCORE.get(label, 0)
ChoiceScore(label) ==
    IF label \in DOMAIN CHOICE_TO_SCORE THEN CHOICE_TO_SCORE[label] ELSE 0

\* the TypeKey question i counts for
QuestionType(i) ==
    IF i < Len(QUESTION_TYPES) THEN QUESTION_TYPES[i + 1]
    ELSE TYPE_KEYS[(i % Len(TYPE_KEYS)) + 1]

\* {k: 0 for k in TYPE_KEYS}
ZeroScores == [k \in TypeKeySet |-> 0]

RECURSIVE RawLoop(_, _, _)
RawLoop(form, i, acc) ==
    IF i >= NumQ THEN acc
    ELSE RawLoop(form, i + 1,
                 [acc EXCEPT ![QuestionType(i)] = @ + ChoiceScore(FormGet(form, i))])

RawScores(form) == RawLoop(form, 0, ZeroScores)

(***************************************************************************)
(* POST /result: bonus                                                      *)
(***************************************************************************)
\* faulty variant: no upper clamp
Clamp05NoUpper(v) == IF v < 0 THEN 0 ELSE v

\* lines 830-833
Clamp05(v) == IF v < 0 THEN 0 ELSE IF v > 5 THEN 5 ELSE v

\* faulty variant: the bonus is not added
FinalOfRawOnly(r, v) == r

\* line 835
FinalOf(r, v) == r + v

\* data["bonus_scores"].get(k, 0)
CandGet(cand, k) == IF cand[k].t = "absent" THEN PyInt(0) ELSE cand[k]

\* the for loop of the try block, from the i-th TypeKey on: exc = TRUE when int()
\* raised, with bonus and final as the loop left them
RECURSIVE BonusLoop(_, _, _, _, _)
BonusLoop(i, cand, r, bonus, final) ==
    IF i > Len(TYPE_KEYS) THEN [exc |-> FALSE, bonus |-> bonus, final |-> final]
    ELSE LET k == TYPE_KEYS[i]
             c == ToInt(CandGet(cand, k))
         IN IF ~c.ok THEN [exc |-> TRUE, bonus |-> bonus, final |-> final]
            ELSE LET v == Clamp05(c.n)
                 IN BonusLoop(i + 1, cand, r,
                              [bonus EXCEPT ![k] = v],
                              [final EXCEPT ![k] = FinalOf(r[k], v)])

\* faulty variant: an except branch that leaves bonus and final_scores as the loop
\* left them
TryBonusKeepPartial(data, r) ==
    LET res == IF data.kind = "bonus" THEN BonusLoop(1, data.cand, r, ZeroScores, r)
               ELSE [exc |-> TRUE, bonus |-> ZeroScores, final |-> r]
    IN [bonus |-> res.bonus, final |-> res.final]

\* the try/except of lines 826-839; data holds "bonus_scores"
TryBonus(data, r) ==
    LET res == IF data.kind = "bonus" THEN BonusLoop(1, data.cand, r, ZeroScores, r)
               ELSE \* data["bonus_scores"] or its .get raises at the first TypeKey
                    [exc |-> TRUE, bonus |-> ZeroScores, final |-> r]
    IN IF res.exc THEN [bonus |-> ZeroScores, final |-> r]
       ELSE [bonus |-> res.bonus, final |-> res.final]

\* `"bonus_scores" in data` raises TypeError: data is a truthy number or boolean
InRaises(data) == data.kind = "scalar"

\* `data and "bonus_scores" in data`, for the data on which it does not raise
HasBonusScores(data) == data.kind \in {"bonus", "bonus_nondict", "list_with_key"}

\* faulty variant: ties go to the last key
DictMaxLast(keys, d) ==
    LET RECURSIVE Go(_, _)
        Go(i, best) == IF i > Len(keys) THEN best
                       ELSE Go(i + 1, IF d[keys[i]] >= d[best] THEN keys[i] ELSE best)
    IN Go(2, keys[1])

\* max(d, key=lambda k: d[k]) over a dict whose keys were inserted in the order keys
DictMax(keys, d) ==
    LET RECURSIVE Go(_, _)
        Go(i, best) == IF i > Len(keys) THEN best
                       ELSE Go(i + 1, IF d[keys[i]] > d[best] THEN keys[i] ELSE best)
    IN Go(2, keys[1])

\* lines 849-862
ResultRow(r, bonus, final) ==
    [top_type |-> DictMax(TYPE_KEYS, final),
     scores |-> final,
     raw_scores |-> r,
     bonus_scores |-> bonus]

(***************************************************************************)
(* Inputs of POST /result                                                   *)
(***************************************************************************)
\* the labels a form field is drawn from: the four choices, a label the
\* questionnaire does not know, and no field at all
FormLabels == {"yes", "maybe", "neutral", "no", "bogus", NoField}

\* forms that give every question the label base, but for at most n questions
RECURSIVE FormsFrom(_, _)
FormsFrom(base, n) ==
    IF n = 0 THEN {[i \in 0..(NumQ - 1) |-> base]}
    ELSE LET less == FormsFrom(base, n - 1)
         IN less \cup {[f EXCEPT ![i] = l] : f \in less, i \in 0..(NumQ - 1), l \in FormLabels}

\* the forms explored: every question answered yes, but for at most
\* MaxOverrides questions, which carry any label or are not sent at all
Forms == FormsFrom("yes", MaxOverrides)

\* the values the collaborator gives a TypeKey of bonus_scores
BonusVals == {PyInt(0 - 2), PyInt(3), PyInt(9), PyStr(<<"x">>), PyNone}

NoCand == [k \in TypeKeySet |-> PyAbsent]

\* bonus_scores objects that mention at most n TypeKeys
RECURSIVE CandsUpTo(_)
CandsUpTo(n) ==
    IF n = 0 THEN {NoCand}
    ELSE LET less == CandsUpTo(n - 1)
         IN less \cup {[c EXCEPT ![k] = v] : c \in less, k \in TypeKeySet, v \in BonusVals}

\* what gemini_generate_json returns:
\*   none           None (the call or json.loads raised)
\*   empty          a falsy value: {}, [], "", 0
\*   scalar         a truthy number or boolean, such as 5 or true
\*   text           a non-empty string that does not contain "bonus_scores"
\*   nokey          a non-empty dict without "bonus_scores"
\*   list_with_key  a list or string that contains "bonus_scores"
\*   bonus_nondict  a dict whose "bonus_scores" is not a dict
\*   bonus          a dict whose "bonus_scores" is the dict cand
OtherReplyKinds == {"none", "empty", "scalar", "text", "nokey", "list_with_key", "bonus_nondict"}

Replies ==
    {[kind |-> kd, cand |-> NoCand] : kd \in OtherReplyKinds}
        \cup {[kind |-> "bonus", cand |-> c] : c \in CandsUpTo(MaxBonusKeys)}

NoRequest == [i \in 0..(NumQ - 1) |-> NoField]
NoReply == [kind |-> "nocall", cand |-> NoCand]

(***************************************************************************)
(* POST /result as a state machine                                          *)
(***************************************************************************)
StepIdle ==
    /\ steps_json = [t |-> "none", items |-> <<>>]
    /\ normalized_steps = <<>>
    /\ spc = "off"

\* no journal request and no kai request is in flight
KaiReqIdle ==
    /\ journal = [pc |-> "none", content |-> FALSE, parsed |-> <<>>]
    /\ kreqs = <<>>

KaiIdle ==
    /\ KaiReqIdle
    /\ logs = <<>>
    /\ kai_name = <<>>
    /\ threshold = <<0, 1>>
    /\ found = 0
    /\ kpc = "off"
    /\ kai_op = [op |-> "none", exact |-> FALSE]

\* no /quest/<id> request is served
ProgressIdle ==
    /\ progress = <<>>
    /\ now = 1
    /\ reqs = <<>>
    /\ served = [method |-> "none", created |-> FALSE, status |-> "not_started",
                 feedback |-> FALSE]

\* no pair of strings is compared
SimIdle == sm = [a |-> <<>>, b |-> <<>>, ab |-> <<1, 1>>, ba |-> <<1, 1>>, pc |-> "off"]

InitResult ==
    /\ gemini_available \in BOOLEAN
    /\ pc = "idle"
    /\ request = NoRequest
    /\ raw = ZeroScores
    /\ reply = NoReply
    /\ results = <<>>
    /\ outcome = "none"
    /\ last = <<>>
    /\ StepIdle
    /\ KaiIdle
    /\ ProgressIdle
    /\ SimIdle

\* the browser posts the diagnosis form
Submit ==
    /\ pc = "idle"
    /\ results = <<>>
    /\ \E form \in Forms : request' = form
    /\ pc' = "received"
    /\ UNCHANGED <<gemini_available, raw, reply, results, outcome, last, stepVars, kaiVars,
                   progVars, sm>>

\* lines 766-791 and 844-866: the raw scores, then either the call of the
\* collaborator or, with Gemini not configured, the row with no bonus
Result_Score ==
    /\ pc = "received"
    /\ raw' = RawScores(request)
    /\ request' = NoRequest
    /\ IF gemini_available
       THEN /\ pc' = "awaiting"
            /\ UNCHANGED <<results, outcome>>
       ELSE /\ pc' = "done"
            /\ results' = Append(results, ResultRow(raw', ZeroScores, raw'))
            /\ outcome' = "redirect"
    /\ UNCHANGED <<gemini_available, reply, last, stepVars, kaiVars, progVars, sm>>

\* lines 824-866: gemini_generate_json returns data and the request runs to its end
Result_Bonus ==
    /\ pc = "awaiting"
    /\ \E data \in Replies :
         /\ reply' = data
         /\ IF InRaises(data)
            THEN \* the TypeError of line 825 leaves the view: no row, HTTP 500
                 /\ outcome' = "error"
                 /\ UNCHANGED results
            ELSE LET b == IF HasBonusScores(data) THEN TryBonus(data, raw)
                          ELSE [bonus |-> ZeroScores, final |-> raw]
                 IN /\ results' = Append(results, ResultRow(raw, b.bonus, b.final))
                    /\ outcome' = "redirect"
    /\ pc' = "done"
    /\ UNCHANGED <<gemini_available, request, raw, last, stepVars, kaiVars, progVars, sm>>

NextResult == Submit \/ Result_Score \/ Result_Bonus

SpecResult == InitResult /\ [][NextResult]_vars

(***************************************************************************)
(* quest_do: step normalization (lines 1198-1289)                           *)
(***************************************************************************)
TEXT == <<"t", "e", "x", "t">>
GRID == <<"g", "r", "i", "d">>
CHOICE == <<"c", "h", "o", "i", "c", "e">>

\* the keys quest_do reads from a step dict
StepKeys == {"title", "step_title", "label", "type", "step_type",
             "grid_rows", "rows", "row", "grid_cols", "cols", "col",
             "options", "choices", "choice"}

\* a dict with none of the keys; s.get(key) of a missing key is None
EmptyDict == [k \in StepKeys |-> PyNone]

\* the entries of a steps list: a string, a dict, or anything else (a number)
EStr(cs) == [t |-> "str", s |-> cs, d |-> EmptyDict]
EDict(d) == [t |-> "dict", s |-> <<>>, d |-> d]
EOther == [t |-> "int", s |-> <<>>, d |-> EmptyDict]

\* Python's `a or b`
PyOr(a, b) == IF Truthy(a) THEN a ELSE b

\* str.splitlines() on "\n": the pieces between line breaks, with no empty piece
\* after a final line break
RECURSIVE SplitLines(_, _)
SplitLines(cs, cur) ==
    IF cs = <<>> THEN (IF cur = <<>> THEN <<>> ELSE <<cur>>)
    ELSE IF Head(cs) = "\n" THEN <<cur>> \o SplitLines(Tail(cs), <<>>)
    ELSE SplitLines(Tail(cs), Append(cur, Head(cs)))

\* [o.strip() for o in lines if o.strip()]
RECURSIVE StripNonEmpty(_)
StripNonEmpty(lines) ==
    IF lines = <<>> THEN <<>>
    ELSE LET o == Strip(Head(lines))
         IN (IF o = <<>> THEN <<>> ELSE <<o>>) \o StripNonEmpty(Tail(lines))

\* lines 1244-1258: the options as a list
ResolveOptions(d) ==
    LET options == PyOr(d["options"], PyOr(d["choices"], PyOr(d["choice"], PyList(<<>>))))
    IN IF options.t = "str" THEN StripNonEmpty(SplitLines(options.s, <<>>))
       ELSE IF options.t = "list" THEN options.l
       ELSE <<>>

\* lines 1261-1268: int(v) if v else 0, and 0 when int() raises
GridDim(v) ==
    IF Truthy(v)
    THEN LET c == ToInt(v) IN IF c.ok THEN c.n ELSE 0
    ELSE 0

\* faulty variant: an unknown kind is kept
RoundKindKeep(step_type) == step_type

\* lines 1278-1279
RoundKind(step_type) ==
    IF step_type \in {PyStr(TEXT), PyStr(GRID), PyStr(CHOICE)} THEN step_type
    ELSE PyStr(TEXT)

\* faulty variant: the grid check runs before the options check
InferKindGridFirst(step_type, options, grid_rows, grid_cols) ==
    IF (grid_rows > 0 /\ grid_cols > 0) /\ step_type = PyStr(TEXT) THEN PyStr(GRID)
    ELSE IF options # <<>> /\ step_type = PyStr(TEXT) THEN PyStr(CHOICE)
    ELSE step_type

\* lines 1272-1275
InferKind(step_type, options, grid_rows, grid_cols) ==
    IF options # <<>> /\ step_type = PyStr(TEXT) THEN PyStr(CHOICE)
    ELSE IF (grid_rows > 0 /\ grid_cols > 0) /\ step_type = PyStr(TEXT) THEN PyStr(GRID)
    ELSE step_type

\* lines 1217-1289: the canonical step of a dict
NormalizeDict(d) ==
    LET title == PyOr(d["title"], PyOr(d["step_title"], PyOr(d["label"], PyStr(<<>>))))
        step_type == PyOr(d["type"], PyOr(d["step_type"], PyStr(TEXT)))
        rows0 == PyOr(d["grid_rows"], PyOr(d["rows"], PyOr(d["row"], PyInt(0))))
        cols0 == PyOr(d["grid_cols"], PyOr(d["cols"], PyOr(d["col"], PyInt(0))))
        options == ResolveOptions(d)
        grid_rows == GridDim(rows0)
        grid_cols == GridDim(cols0)
    IN [title |-> title,
        type |-> RoundKind(InferKind(step_type, options, grid_rows, grid_cols)),
        grid_rows |-> grid_rows,
        grid_cols |-> grid_cols,
        options |-> options]

\* lines 1204-1214: the canonical step of a bare string
NormalizeStr(cs) ==
    [title |-> PyStr(cs), type |-> PyStr(TEXT), grid_rows |-> 0, grid_cols |-> 0,
     options |-> <<>>]

\* faulty variant: an entry that is neither string nor dict yields a step
NormalizeEntryKeepAll(e) ==
    IF e.t = "dict" THEN <<NormalizeDict(e.d)>> ELSE <<NormalizeStr(e.s)>>

\* one pass of the for loop: the steps the entry appends
NormalizeEntry(e) ==
    IF e.t = "str" THEN <<NormalizeStr(e.s)>>
    ELSE IF e.t = "dict" THEN <<NormalizeDict(e.d)>>
    ELSE <<>>

RECURSIVE NormalizeLoop(_)
NormalizeLoop(items) ==
    IF items = <<>> THEN <<>>
    ELSE NormalizeEntry(Head(items)) \o NormalizeLoop(Tail(items))

\* lines 1198-1289; raw_steps = quest.steps_json or []
NormalizeSteps(payload) ==
    IF payload.t = "list" THEN NormalizeLoop(payload.items) ELSE <<>>

(***************************************************************************)
(* Inputs of the step normalization                                         *)
(***************************************************************************)
\* the values explored for each key of a step dict
KeyVals(k) ==
    CASE k = "title" -> {PyStr(<<"a">>), PyStr(<<>>)}
      [] k = "step_title" -> {PyStr(<<"b">>)}
      [] k = "label" -> {PyStr(<<"c">>)}
      [] k = "type" -> {PyStr(TEXT), PyStr(GRID), PyStr(CHOICE), PyStr(<<"q">>), PyStr(<<>>)}
      [] k = "step_type" -> {PyStr(GRID), PyInt(7)}
      [] k = "grid_rows" -> {PyInt(3), PyInt(0), PyInt(0 - 3), PyStr(<<"2">>), PyStr(<<"x">>)}
      [] k = "rows" -> {PyInt(3)}
      [] k = "row" -> {PyFloat(27)}
      [] k = "grid_cols" -> {PyInt(4), PyInt(0), PyInt(0 - 1), PyStr(<<"x">>)}
      [] k = "cols" -> {PyInt(4)}
      [] k = "col" -> {PyStr(<<" ", "2">>)}
      [] k = "options" -> {PyList(<<<<"A">>, <<"B">>>>), PyList(<<>>), PyList(<< <<>> >>),
                           PyStr(<<"A", "\n", " ", "B", " ", "\n">>), PyStr(<<" ", "\n">>),
                           PyInt(5)}
      [] k = "choices" -> {PyList(<< <<"C">> >>)}
      [] k = "choice" -> {PyStr(<<"D">>)}

StepKeyList == <<"title", "step_title", "label", "type", "step_type",
                 "grid_rows", "rows", "row", "grid_cols", "cols", "col",
                 "options", "choices", "choice">>

\* step dicts that hold at most n keys, all among the i-th and later keys
RECURSIVE DictsFrom(_, _)
DictsFrom(i, n) ==
    IF n = 0 \/ i > Len(StepKeyList) THEN {EmptyDict}
    ELSE DictsFrom(i + 1, n)
            \cup {[d EXCEPT ![StepKeyList[i]] = v] :
                    d \in DictsFrom(i + 1, n - 1), v \in KeyVals(StepKeyList[i])}

\* step dicts that hold at most n of the keys
DictsUpTo(n) == DictsFrom(1, n)

\* the entries explored in lists of several entries
PlainEntries ==
    {EStr(<<"s">>), EOther,
     EDict([EmptyDict EXCEPT !["label"] = PyStr(<<"c">>)]),
     EDict([EmptyDict EXCEPT !["type"] = PyStr(GRID)])}

\* lists of at most n plain entries
RECURSIVE ListsUpTo(_)
ListsUpTo(n) ==
    IF n = 0 THEN {<<>>}
    ELSE LET less == ListsUpTo(n - 1)
         IN less \cup {Append(l, x) : l \in less, x \in PlainEntries}

\* Quest.steps_json: NULL, a value that is no list (a dict, a string, a number),
\* a list of plain entries, or a list of one string, number or dict
StepPayloads ==
    {[t |-> nl, items |-> <<>>] : nl \in {"none", "dict", "str", "int"}}
        \cup {[t |-> "list", items |-> l] : l \in ListsUpTo(MaxSteps)}
        \cup {[t |-> "list", items |-> <<EDict(d)>>] : d \in DictsUpTo(MaxStepKeys)}
        \cup {[t |-> "list", items |-> <<EStr(<<>>)>>]}

ResultIdle ==
    /\ gemini_available = FALSE
    /\ pc = "off"
    /\ request = NoRequest
    /\ raw = ZeroScores
    /\ reply = NoReply
    /\ results = <<>>
    /\ outcome = "none"
    /\ last = <<>>

InitSteps ==
    /\ steps_json \in StepPayloads
    /\ normalized_steps = <<>>
    /\ spc = "stored"
    /\ ResultIdle
    /\ KaiIdle
    /\ ProgressIdle
    /\ SimIdle

\* quest_do reads the quest and normalizes its steps
Quest_Normalize ==
    /\ spc = "stored"
    /\ normalized_steps' = NormalizeSteps(steps_json)
    /\ spc' = "normalized"
    /\ UNCHANGED <<steps_json, scoreVars, kaiVars, progVars, sm>>

NextSteps == Quest_Normalize

SpecSteps == InitSteps /\ [][NextSteps]_vars

(***************************************************************************)
(* _similarity and find_similar_kai (lines 237-263)                         *)
(***************************************************************************)
Min(x, y) == IF x < y THEN x ELSE y

\* the blocks (i, j, k), 0-based, with a[i:i+k] == b[j:j+k], k > 0, inside
\* a[alo:ahi] and b[blo:bhi]
Blocks(a, b, alo, ahi, blo, bhi) ==
    {blk \in (alo..(ahi - 1)) \X (blo..(bhi - 1)) \X (1..Min(ahi - alo, bhi - blo)) :
        /\ blk[1] + blk[3] <= ahi
        /\ blk[2] + blk[3] <= bhi
        /\ \A x \in 1..blk[3] : a[blk[1] + x] = b[blk[2] + x]}

\* the longest block of bs, of those the one starting earliest in a, of those the
\* one starting earliest in b; <<alo, blo, 0>> when there is none
BestBlock(bs, alo, blo) ==
    IF bs = {} THEN <<alo, blo, 0>>
    ELSE CHOOSE m \in bs :
           \A o \in bs :
             \/ m[3] > o[3]
             \/ m[3] = o[3] /\ m[1] < o[1]
             \/ m[3] = o[3] /\ m[1] = o[1] /\ m[2] <= o[2]

\* SequenceMatcher.find_longest_match without junk
LongestMatch(a, b, alo, ahi, blo, bhi) ==
    BestBlock(Blocks(a, b, alo, ahi, blo, bhi), alo, blo)

\* MatchCount: the number of matched characters of
\* SequenceMatcher.get_matching_blocks: the longest block, then the same to its
\* left and to its right
RECURSIVE MatchCount(_, _, _, _, _, _)
\* the matched characters given the longest block m of a[alo:ahi] and b[blo:bhi]
MatchAround(a, b, alo, ahi, blo, bhi, m) ==
    IF m[3] = 0 THEN 0
    ELSE m[3] + MatchCount(a, b, alo, m[1], blo, m[2])
              + MatchCount(a, b, m[1] + m[3], ahi, m[2] + m[3], bhi)

MatchCount(a, b, alo, ahi, blo, bhi) ==
    IF alo >= ahi \/ blo >= bhi THEN 0
    ELSE MatchAround(a, b, alo, ahi, blo, bhi, LongestMatch(a, b, alo, ahi, blo, bhi))

\* SequenceMatcher(None, a, b).ratio() as the rational <<numerator, denominator>>:
\* 2.0 * matches / (len(a) + len(b)), and 1.0 for two empty strings
_similarity(a, b) ==
    IF Len(a) + Len(b) = 0 THEN <<1, 1>>
    ELSE <<2 * MatchCount(a, b, 0, Len(a), 0, Len(b)), Len(a) + Len(b)>>

\* comparison of two rationals with positive denominators
RatGT(x, y) == x[1] * y[2] > y[1] * x[2]
RatGE(x, y) == x[1] * y[2] >= y[1] * x[2]

\* faulty variant: score >= best_score, so ties go to the last row
find_similar_kai_KeepLast(ls, name, th) ==
    LET nm == Strip(name)
        RECURSIVE Loop(_, _, _)
        Loop(i, best_log, best_score) ==
            IF i > Len(ls) THEN <<best_log, best_score>>
            ELSE LET score == _similarity(ls[i].name, nm)
                 IN IF RatGE(score, best_score) THEN Loop(i + 1, ls[i].id, score)
                    ELSE Loop(i + 1, best_log, best_score)
        best == Loop(1, 0, <<0, 1>>)
    IN IF nm = <<>> THEN 0
       ELSE IF best[1] # 0 /\ RatGE(best[2], th) THEN best[1]
       ELSE 0

\* find_similar_kai: the id of the returned row, 0 for None
find_similar_kai(ls, name, th) ==
    LET nm == Strip(name)
        RECURSIVE Loop(_, _, _)
        Loop(i, best_log, best_score) ==
            IF i > Len(ls) THEN <<best_log, best_score>>
            ELSE LET score == _similarity(ls[i].name, nm)
                 IN IF RatGT(score, best_score) THEN Loop(i + 1, ls[i].id, score)
                    ELSE Loop(i + 1, best_log, best_score)
        best == Loop(1, 0, <<0, 1>>)
    IN IF nm = <<>> THEN 0
       ELSE IF best[1] # 0 /\ RatGE(best[2], th) THEN best[1]
       ELSE 0

(***************************************************************************)
(* Inputs of find_similar_kai                                               *)
(***************************************************************************)
KaiAlphabet == {"a", "b"}

\* strings of exactly n characters
RECURSIVE StringsOfLen(_)
StringsOfLen(n) ==
    IF n = 0 THEN {<<>>}
    ELSE {Append(w, c) : w \in StringsOfLen(n - 1), c \in KaiAlphabet}

\* the names of KaiLog rows: stripped and not empty (lines 911-920, 1508-1520)
KaiNames == UNION {StringsOfLen(n) : n \in 1..MaxNameLen}

\* the names handed to find_similar_kai: a name, bare or between blanks, the
\* empty string and a blank string
KaiCandidates ==
    KaiNames \cup {<<" ">> \o w \o <<" ">> : w \in KaiNames} \cup {<<>>, <<" ">>}

Thresholds == {<<0, 1>>, <<1, 2>>, <<7, 10>>, <<1, 1>>}

\* lists of at most n KaiLog rows, the row at position i having id i
RECURSIVE LogsUpTo(_)
LogsUpTo(n) ==
    IF n = 0 THEN {<<>>}
    ELSE LET less == LogsUpTo(n - 1)
         IN less \cup {Append(l, [id |-> Len(l) + 1, name |-> w, count |-> 1]) :
                        l \in {x \in less : Len(x) = n - 1}, w \in KaiNames}

InitKai ==
    /\ logs \in LogsUpTo(MaxLogs)
    /\ kai_name = <<>>
    /\ threshold = <<0, 1>>
    /\ found = 0
    /\ kpc = "ready"
    /\ kai_op = [op |-> "none", exact |-> FALSE]
    /\ KaiReqIdle
    /\ ResultIdle
    /\ StepIdle
    /\ ProgressIdle
    /\ SimIdle

\* a call find_similar_kai(logs, name, threshold)
FindSimilar ==
    /\ kpc = "ready"
    /\ \E name \in KaiCandidates, th \in Thresholds :
         /\ kai_name' = name
         /\ threshold' = th
         /\ found' = find_similar_kai(logs, name, th)
    /\ kpc' = "returned"
    /\ UNCHANGED <<logs, kai_op, journal, kreqs, scoreVars, stepVars, progVars, sm>>

NextKai == FindSimilar

SpecKai == InitKai /\ [][NextKai]_vars

(***************************************************************************)
(* quest_do: the progress of a quest (lines 1181-1195 and 1291-1335)        *)
(***************************************************************************)
\* /quest/<id> requests in flight at once
NumRequests == 2
\* quests the user opens
NumQuests == 1
\* the last instant of the clock
MaxClock == 2

\* a DateTime column that is NULL
NoTime == 0

\* lines 1189-1193: the row of a first access
NewProgress(id, q) ==
    [id |-> id, quest_id |-> q, status |-> "not_started",
     started_at |-> NoTime, completed_at |-> NoTime]

\* lines 1185-1187: the positions of the rows of the quest
Matching(rows, q) == {i \in 1..Len(rows) : rows[i].quest_id = q}

\* the position of the row of a primary key
RowIndex(rows, id) == CHOOSE i \in 1..Len(rows) : rows[i].id = id

\* the columns an UPDATE writes: each holds <<>> (not written) or <<value>>
NoChanges == [status |-> <<>>, started_at |-> <<>>, completed_at |-> <<>>]

\* faulty variant: the GET marks the quest as in progress whatever its status
OpenChangesAlways(status, t) ==
    [NoChanges EXCEPT !.status = <<"in_progress">>, !.started_at = <<t>>]

\* lines 1332-1335: what the GET writes, given the status it loaded
OpenChanges(status, t) ==
    IF status = "not_started"
    THEN [NoChanges EXCEPT !.status = <<"in_progress">>, !.started_at = <<t>>]
    ELSE NoChanges

\* faulty variant: the POST sets started_at on every call
CompleteChangesRestart(created, status, started_at, t1, t2) ==
    [status |-> <<"completed">>, started_at |-> <<t1>>, completed_at |-> <<t2>>]

\* faulty variant: the POST never sets started_at
CompleteChangesNoStart(created, status, started_at, t1, t2) ==
    [NoChanges EXCEPT
        !.status = IF created \/ status # "completed" THEN <<"completed">> ELSE <<>>,
        !.completed_at = <<t2>>]

\* lines 1295-1299: what the POST writes, given the row it loaded; t1 and t2 are
\* the two readings of utcnow(). status is assigned before the row created at
\* line 1189 is reloaded, so it is written then whatever the reload finds.
CompleteChanges(created, status, started_at, t1, t2) ==
    [status |-> IF created \/ status # "completed" THEN <<"completed">> ELSE <<>>,
     started_at |-> IF started_at = NoTime THEN <<t1>> ELSE <<>>,
     completed_at |-> <<t2>>]

\* the row after UPDATE ... WHERE id = row.id
ApplyChanges(row, ch) ==
    [row EXCEPT !.status = IF ch.status = <<>> THEN @ ELSE ch.status[1],
                !.started_at = IF ch.started_at = <<>> THEN @ ELSE ch.started_at[1],
                !.completed_at = IF ch.completed_at = <<>> THEN @ ELSE ch.completed_at[1]]

\* a request slot that serves nothing
IdleReq ==
    [pc |-> "idle", method |-> "GET", quest |-> 1, created |-> FALSE, id |-> 0,
     status |-> "not_started", started_at |-> NoTime]

\* no request was answered yet
NoneServed ==
    [method |-> "none", created |-> FALSE, status |-> "not_started", feedback |-> FALSE]

\* no other request is between its lookup and its last commit
Alone(p) == \A o \in DOMAIN reqs : o # p => reqs[o].pc = "idle"

\* lines 1181-1187: the request arrives and looks the progress row up; first()
\* has no ORDER BY, so of several rows of the quest any one may be returned
Quest_Lookup(p, m, q) ==
    /\ reqs[p].pc = "idle"
    /\ LET ms == Matching(progress, q)
           arrived == [IdleReq EXCEPT !.method = m, !.quest = q]
       IN IF ms = {}
          THEN reqs' = [reqs EXCEPT ![p] = [arrived EXCEPT !.pc = "create"]]
          ELSE \E i \in ms :
                 reqs' = [reqs EXCEPT ![p] =
                            [arrived EXCEPT !.pc = "loaded",
                                            !.id = progress[i].id,
                                            !.status = progress[i].status,
                                            !.started_at = progress[i].started_at]]
    /\ UNCHANGED <<progress, now, served>>

\* lines 1188-1195: no row was found; one is added and committed, and the commit
\* expires the attributes of the object
Quest_Create(p) ==
    /\ reqs[p].pc = "create"
    /\ LET id == Len(progress) + 1
       IN /\ progress' = Append(progress, NewProgress(id, reqs[p].quest))
          /\ reqs' = [reqs EXCEPT ![p].pc = "created", ![p].created = TRUE, ![p].id = id]
    /\ UNCHANGED <<now, served>>

\* lines 1296 and 1332: the first read of an attribute of the row created at
\* line 1189 loads the row again
Quest_Refresh(p) ==
    /\ reqs[p].pc = "created"
    /\ LET row == progress[RowIndex(progress, reqs[p].id)]
       IN reqs' = [reqs EXCEPT ![p].pc = "loaded",
                               ![p].status = row.status,
                               ![p].started_at = row.started_at]
    /\ UNCHANGED <<progress, now, served>>

\* lines 1291-1299 (POST, whose form may hold a feedback text) and 1331-1335
\* (GET): the transition, its commit and the response
Quest_Write(p) ==
    /\ reqs[p].pc = "loaded"
    /\ LET i == RowIndex(progress, reqs[p].id)
           answered == [method |-> reqs[p].method, created |-> reqs[p].created,
                        status |-> reqs[p].status, feedback |-> FALSE]
       IN IF reqs[p].method = "POST"
          THEN \E t2 \in {t \in {now, now + 1} : t <= MaxClock}, fb \in BOOLEAN :
                 /\ progress' = [progress EXCEPT ![i] =
                        ApplyChanges(@, CompleteChanges(reqs[p].created, reqs[p].status,
                                                        reqs[p].started_at, now, t2))]
                 /\ now' = t2
                 /\ served' = [answered EXCEPT !.feedback = fb]
          ELSE /\ progress' = [progress EXCEPT ![i] =
                        ApplyChanges(@, OpenChanges(reqs[p].status, now))]
               /\ served' = answered
               /\ UNCHANGED now
    /\ reqs' = [reqs EXCEPT ![p] = IdleReq]

\* lines 1607-1617: /reset deletes the rows of the user
Reset ==
    /\ \A p \in DOMAIN reqs : reqs[p].pc = "idle"
    /\ progress # <<>>
    /\ progress' = <<>>
    /\ UNCHANGED <<now, reqs, served, scoreVars, stepVars, kaiVars, sm>>

\* time passes
Tick ==
    /\ now < MaxClock
    /\ now' = now + 1
    /\ UNCHANGED <<progress, reqs, served, scoreVars, stepVars, kaiVars, sm>>

Methods == {"GET", "POST"}

InitProgress ==
    /\ progress = <<>>
    /\ now = 1
    /\ reqs = [p \in 1..NumRequests |-> IdleReq]
    /\ served = NoneServed
    /\ ResultIdle
    /\ StepIdle
    /\ KaiIdle
    /\ SimIdle

\* a request arrives while no other is being served
Quest_ArriveAlone ==
    /\ \E p \in 1..NumRequests, m \in Methods, q \in 1..NumQuests :
         Alone(p) /\ Quest_Lookup(p, m, q)
    /\ UNCHANGED <<scoreVars, stepVars, kaiVars, sm>>

\* a request arrives, whatever the others do
Quest_Arrive ==
    /\ \E p \in 1..NumRequests, m \in Methods, q \in 1..NumQuests :
         Quest_Lookup(p, m, q)
    /\ UNCHANGED <<scoreVars, stepVars, kaiVars, sm>>

Quest_Creates ==
    /\ \E p \in 1..NumRequests : Quest_Create(p)
    /\ UNCHANGED <<scoreVars, stepVars, kaiVars, sm>>

Quest_Refreshes ==
    /\ \E p \in 1..NumRequests : Quest_Refresh(p)
    /\ UNCHANGED <<scoreVars, stepVars, kaiVars, sm>>

Quest_Writes ==
    /\ \E p \in 1..NumRequests : Quest_Write(p)
    /\ UNCHANGED <<scoreVars, stepVars, kaiVars, sm>>

\* the requests are served one at a time
NextProgress ==
    \/ Quest_ArriveAlone
    \/ Quest_Creates
    \/ Quest_Refreshes
    \/ Quest_Writes
    \/ Reset
    \/ Tick

SpecProgress == InitProgress /\ [][NextProgress]_vars

\* the requests interleave at their database accesses
NextProgressConc ==
    \/ Quest_Arrive
    \/ Quest_Creates
    \/ Quest_Refreshes
    \/ Quest_Writes
    \/ Tick

SpecProgressConc == InitProgress /\ [][NextProgressConc]_vars

(***************************************************************************)
(* register_kai, delete_kai and journal_save on the KaiLog rows of a user   *)
(* (lines 906-939 and 1468-1533), served one at a time                      *)
(***************************************************************************)
\* phrases of kai_extracted
MaxBatch == 2
\* the greatest count a row is taken to
MaxCount == 3

NoKaiOp == [op |-> "none", exact |-> FALSE]

\* A request refers to the row objects it loaded by their position in the list:
\* the id of a row is its position, as in the lists handed to find_similar_kai.
Renumber(rows) == [i \in 1..Len(rows) |-> [rows[i] EXCEPT !.id = i]]

\* faulty variant: the lookup by name never finds a row
ExactLookupMisses(rows, name) == 0

\* line 916: filter_by(user_id, name).first(); the id of the row, 0 for None
ExactLookup(rows, name) ==
    IF \E i \in 1..Len(rows) : rows[i].name = name
    THEN rows[CHOOSE i \in 1..Len(rows) :
                 /\ rows[i].name = name
                 /\ \A j \in 1..(i - 1) : rows[j].name # name].id
    ELSE 0

\* log.count = (log.count or 0) + 1 on the row of the id
Increment(rows, id) ==
    [i \in 1..Len(rows) |->
        IF rows[i].id = id THEN [rows[i] EXCEPT !.count = @ + 1] ELSE rows[i]]

\* KaiLog(user_id, name, count=1) added to the rows
AddLog(rows, name) == Append(rows, [id |-> Len(rows) + 1, name |-> name, count |-> 1])

\* lines 916-921: the rows after register_kai of a non-blank name
RegisterRows(rows, name) ==
    LET id == ExactLookup(rows, name)
    IN IF id # 0 THEN Increment(rows, id) ELSE AddLog(rows, name)

\* line 937: the rows after delete_kai
DeleteRows(rows, name) == Renumber(SelectSeq(rows, LAMBDA r : r.name # name))

\* the row of the id holds exactly the name
HoldsName(rows, id, name) == \E i \in 1..Len(rows) : rows[i].id = id /\ rows[i].name = name

\* lines 1507-1523: the loop over kai_list; existing is existing_logs, exact tells
\* whether the phrase handled last was counted on a row of exactly its name
RECURSIVE JournalLoop(_, _, _)
\* lines 1513-1523: the rest of the loop after find_similar_kai returned similar_log
\* faulty variant: every phrase becomes a row of its own
JournalCountAlwaysAdds(kai_list, existing, name, similar_log) ==
    JournalLoop(Tail(kai_list), AddLog(existing, name), FALSE)

JournalCount(kai_list, existing, name, similar_log) ==
    IF similar_log # 0
    THEN JournalLoop(Tail(kai_list), Increment(existing, similar_log),
                     HoldsName(existing, similar_log, name))
    ELSE JournalLoop(Tail(kai_list), AddLog(existing, name), FALSE)

JournalLoop(kai_list, existing, exact) ==
    IF kai_list = <<>> THEN [rows |-> existing, exact |-> exact]
    ELSE LET name == Strip(Head(kai_list))
         IN IF name = <<>> THEN JournalLoop(Tail(kai_list), existing, exact)
            ELSE JournalCount(kai_list, existing, name,
                              find_similar_kai(existing, name, <<7, 10>>))

\* the phrases of the requests: a name, a name close to it (ratio 0.8), a name
\* far from both between blanks, and a blank phrase
KaiPhrases == {<<"a", "b">>, <<"a", "b", "b">>, <<" ", "b", "a", " ">>, <<" ">>}

\* kai_extracted lists of at most n phrases
RECURSIVE BatchesUpTo(_)
BatchesUpTo(n) ==
    IF n = 0 THEN {<<>>}
    ELSE LET less == BatchesUpTo(n - 1)
         IN less \cup {Append(l, w) : l \in less, w \in KaiPhrases}

\* the rows stay within the bounds of the exploration
WithinKaiBounds(rows) ==
    /\ Len(rows) <= MaxLogs
    /\ \A i \in 1..Len(rows) : rows[i].count <= MaxCount

InitKaiLog ==
    /\ logs = <<>>
    /\ kai_name = <<>>
    /\ threshold = <<7, 10>>
    /\ found = 0
    /\ kpc = "serving"
    /\ kai_op = NoKaiOp
    /\ KaiReqIdle
    /\ ResultIdle
    /\ StepIdle
    /\ ProgressIdle
    /\ SimIdle

\* the commit of a request that leaves the rows as after
KaiCommit(op, after, exact) ==
    /\ WithinKaiBounds(after)
    /\ logs' = after
    /\ kai_op' = [op |-> op, exact |-> exact]
    /\ UNCHANGED <<kai_name, threshold, found, kpc, journal, kreqs, scoreVars, stepVars,
                   progVars, sm>>

\* POST /register_kai with {"kai": kai}
register_kai ==
    \E kai \in KaiPhrases :
        LET name == Strip(kai)
        IN IF name = <<>>
           THEN \* lines 913-914: answered with 400
                KaiCommit("register_kai", logs, FALSE)
           ELSE KaiCommit("register_kai", RegisterRows(logs, name),
                          ExactLookup(logs, name) # 0)

\* POST /delete_kai with {"kai": kai}
delete_kai ==
    \E kai \in KaiPhrases :
        LET name == Strip(kai)
        IN IF name = <<>>
           THEN \* lines 934-935: answered with 400
                KaiCommit("delete_kai", logs, FALSE)
           ELSE KaiCommit("delete_kai", DeleteRows(logs, name), FALSE)

\* POST /journal/save with a content and a kai_extracted that parses to a list
\* (any other kai_extracted leaves kai_list empty, as the empty list does)
JournalCommit(done) ==
    KaiCommit("journal_save", done.rows, done.exact)

journal_save ==
    \E has_content \in BOOLEAN :
        IF ~has_content
        THEN \* lines 1474-1476: no content, the request ends before the kai list
             KaiCommit("journal_save", logs, FALSE)
        ELSE \E parsed \in BatchesUpTo(MaxBatch) :
               \* line 1505: existing_logs, taken in the order of the rows
               JournalCommit(JournalLoop(StripNonEmpty(parsed), logs, FALSE))

NextKaiLog == register_kai \/ delete_kai \/ journal_save

SpecKaiLog == InitKaiLog /\ [][NextKaiLog]_vars

(***************************************************************************)
(* journal_save, the request and its handler (lines 1468-1533)              *)
(***************************************************************************)
NoJournal == [pc |-> "none", content |-> FALSE, parsed |-> <<>>]

\* a form is posted to /journal/save: a content that is blank or not, and a
\* kai_extracted that parses to a list of phrases
Journal_Submit ==
    /\ journal.pc # "posted"
    /\ \E content \in BOOLEAN, parsed \in BatchesUpTo(MaxBatch) :
         journal' = [pc |-> "posted", content |-> content, parsed |-> parsed]
    /\ UNCHANGED <<logs, kai_name, threshold, found, kpc, kai_op, kreqs, scoreVars,
                   stepVars, progVars, sm>>

\* lines 1468-1533: the handler of the posted form, up to its response
Journal_Save ==
    /\ journal.pc = "posted"
    /\ LET kai_list == StripNonEmpty(journal.parsed)
           done == IF journal.content
                   THEN JournalLoop(kai_list, logs, FALSE)
                   ELSE \* lines 1474-1476: no content, nothing is read or written
                        [rows |-> logs, exact |-> FALSE]
       IN /\ WithinKaiBounds(done.rows)
          /\ logs' = done.rows
          /\ kai_op' = [op |-> "journal_save", exact |-> done.exact]
    /\ journal' = [journal EXCEPT !.pc = "saved"]
    /\ UNCHANGED <<kai_name, threshold, found, kpc, kreqs, scoreVars, stepVars,
                   progVars, sm>>

InitJournal ==
    /\ logs = <<>>
    /\ kai_name = <<>>
    /\ threshold = <<7, 10>>
    /\ found = 0
    /\ kpc = "serving"
    /\ kai_op = NoKaiOp
    /\ KaiReqIdle
    /\ ResultIdle
    /\ StepIdle
    /\ ProgressIdle
    /\ SimIdle

NextJournal == Journal_Submit \/ Journal_Save

SpecJournal == InitJournal /\ [][NextJournal]_vars

(***************************************************************************)
(* register_kai and journal_save served at once (lines 916-923, 1505-1525)  *)
(***************************************************************************)
\* a request slot that serves nothing
IdleKai == [pc |-> "idle", op |-> "none", updates |-> {}, inserts |-> <<>>]

\* what the session of a request holds after it changed the rows it loaded from
\* seen to done: the counts it will write, each with the count it had read, and
\* the rows it will insert
PendingUpdates(seen, done) ==
    {[id |-> i, read |-> seen[i].count, count |-> done[i].count] :
        i \in {j \in 1..Len(seen) : done[j].count # seen[j].count}}

PendingInserts(seen, done) == SubSeq(done, Len(seen) + 1, Len(done))

\* UPDATE kai_log SET count = ... WHERE id = ... for every changed row
WriteCounts(rows, updates) ==
    [i \in 1..Len(rows) |->
        IF \E u \in updates : u.id = i
        THEN [rows[i] EXCEPT !.count = (CHOOSE u \in updates : u.id = i).count]
        ELSE rows[i]]

\* lines 909-921: register_kai reads the row of the name and changes its session;
\* first() has no ORDER BY, so of several rows of the name any one may be returned
Kai_Register(p, kai) ==
    LET name == Strip(kai)
        matches == {i \in 1..Len(logs) : logs[i].name = name}
    IN /\ name # <<>>
       /\ IF matches = {}
          THEN kreqs' = [kreqs EXCEPT ![p] =
                   [pc |-> "loaded", op |-> "register_kai", updates |-> {},
                    inserts |-> <<[id |-> 0, name |-> name, count |-> 1]>>]]
          ELSE \E i \in matches :
                 kreqs' = [kreqs EXCEPT ![p] =
                   [pc |-> "loaded", op |-> "register_kai",
                    updates |-> {[id |-> i, read |-> logs[i].count,
                                  count |-> logs[i].count + 1]},
                    inserts |-> <<>>]]

\* lines 1490-1523: journal_save reads the rows of the user and runs its loop on
\* them
Kai_Journal(p, parsed) ==
    LET kai_list == StripNonEmpty(parsed)
        done == JournalLoop(kai_list, logs, FALSE).rows
    IN /\ kai_list # <<>>
       /\ kreqs' = [kreqs EXCEPT ![p] =
              [pc |-> "loaded", op |-> "journal_save",
               updates |-> PendingUpdates(logs, done),
               inserts |-> PendingInserts(logs, done)]]

\* a request arrives and reads the rows
Kai_Read ==
    /\ \E p \in 1..NumRequests :
         /\ kreqs[p].pc = "idle"
         /\ \/ \E kai \in KaiPhrases : Kai_Register(p, kai)
            \/ \E parsed \in BatchesUpTo(MaxBatch) : Kai_Journal(p, parsed)
    /\ UNCHANGED <<logs, kai_name, threshold, found, kpc, kai_op, journal, scoreVars,
                   stepVars, progVars, sm>>

\* lines 923 and 1525: db.session.commit() writes the counts and inserts the rows
Kai_Write ==
    /\ \E p \in 1..NumRequests :
         /\ kreqs[p].pc = "loaded"
         /\ LET after == Renumber(WriteCounts(logs, kreqs[p].updates) \o kreqs[p].inserts)
            IN /\ WithinKaiBounds(after)
               /\ logs' = after
         /\ kai_op' = [op |-> kreqs[p].op, exact |-> FALSE]
         /\ kreqs' = [kreqs EXCEPT ![p] = IdleKai]
    /\ UNCHANGED <<kai_name, threshold, found, kpc, journal, scoreVars, stepVars,
                   progVars, sm>>

InitKaiConc ==
    /\ logs = <<>>
    /\ kai_name = <<>>
    /\ threshold = <<7, 10>>
    /\ found = 0
    /\ kpc = "serving"
    /\ kai_op = NoKaiOp
    /\ journal = NoJournal
    /\ kreqs = [p \in 1..NumRequests |-> IdleKai]
    /\ ResultIdle
    /\ StepIdle
    /\ ProgressIdle
    /\ SimIdle

NextKaiConc == Kai_Read \/ Kai_Write

SpecKaiConc == InitKaiConc /\ [][NextKaiConc]_vars

(***************************************************************************)
(* _similarity on a pair of strings, in both orders of its arguments        *)
(***************************************************************************)
\* characters of a compared string
MaxSimLen == 3

SimAlphabet == {"a", "b", "c"}

\* strings of at most n characters
RECURSIVE SimStrings(_)
SimStrings(n) ==
    IF n = 0 THEN {<<>>}
    ELSE LET less == SimStrings(n - 1)
         IN less \cup {Append(w, c) : w \in less, c \in SimAlphabet}

InitSim ==
    /\ \E x \in SimStrings(MaxSimLen), y \in SimStrings(MaxSimLen) :
         sm = [a |-> x, b |-> y, ab |-> <<1, 1>>, ba |-> <<1, 1>>, pc |-> "ready"]
    /\ ResultIdle
    /\ StepIdle
    /\ KaiIdle
    /\ ProgressIdle

\* _similarity(a, b) and _similarity(b, a)
Compare ==
    /\ sm.pc = "ready"
    /\ sm' = [sm EXCEPT !.ab = _similarity(sm.a, sm.b),
                        !.ba = _similarity(sm.b, sm.a),
                        !.pc = "compared"]
    /\ UNCHANGED <<scoreVars, stepVars, kaiVars, progVars>>

NextSim == Compare

SpecSim == InitSim /\ [][NextSim]_vars

(***************************************************************************)
(* The DiagnosisResult rows of a user over several requests: POST /result,  *)
(* the pages that read the last result, /reset and /account/delete          *)
(***************************************************************************)
\* scoring submissions that reach the database
MaxResults == 2

\* the row of lines 853-862 with its free texts and its created_at
StampedRow(row, written, t) ==
    [top_type |-> row.top_type, scores |-> row.scores, raw_scores |-> row.raw_scores,
     bonus_scores |-> row.bonus_scores, written |-> written, created_at |-> t]

\* the forms of the submissions: every question answered yes, or no field sent
HistoryForms == {[i \in 0..(NumQ - 1) |-> "yes"], NoRequest}

\* the free texts of the submissions
HistoryTexts == {<<>>, <<"w">>}

\* what the collaborator answers: nothing usable, the number 5, or a bonus for
\* one TypeKey
HistoryReplies ==
    {[kind |-> "none", cand |-> NoCand],
     [kind |-> "scalar", cand |-> NoCand],
     [kind |-> "bonus", cand |-> [NoCand EXCEPT !["mage"] = PyInt(3)]]}

\* lines 703-707, 673-677 and 1132-1136: order_by(created_at.desc()).first(), as
\* the list of the rows that may be returned (none for a user without results)
LastResult(rows) ==
    {rows[i] : i \in {k \in 1..Len(rows) :
                        \A j \in 1..Len(rows) : rows[k].created_at >= rows[j].created_at}}

InitHistory ==
    /\ gemini_available \in BOOLEAN
    /\ pc = "idle"
    /\ request = NoRequest
    /\ raw = ZeroScores
    /\ reply = NoReply
    /\ results = <<>>
    /\ outcome = "none"
    /\ last = <<>>
    /\ StepIdle
    /\ KaiIdle
    /\ ProgressIdle
    /\ SimIdle

\* lines 763-866: the row a POST /result stores, given the raw scores and the
\* collaborator's reply (NoReply when Gemini is not configured)
ScoredRow(r, data) ==
    IF HasBonusScores(data)
    THEN LET b == TryBonus(data, r) IN ResultRow(r, b.bonus, b.final)
    ELSE ResultRow(r, ZeroScores, r)

\* POST /result from its first line to its response
History_Post ==
    /\ Len(results) < MaxResults
    /\ now <= MaxClock
    /\ \E form \in HistoryForms, written \in HistoryTexts,
          data \in (IF gemini_available THEN HistoryReplies ELSE {NoReply}) :
         /\ raw' = RawScores(form)
         /\ reply' = data
         /\ IF InRaises(data)
            THEN \* the TypeError of line 825: HTTP 500, nothing stored
                 /\ outcome' = "error"
                 /\ UNCHANGED <<results, now>>
            ELSE /\ results' = Append(results,
                                      StampedRow(ScoredRow(raw', data), written, now))
                 /\ now' = now + 1
                 /\ outcome' = "redirect"
    /\ pc' = "posted"
    /\ UNCHANGED <<gemini_available, request, last, progress, reqs, served, stepVars,
                   kaiVars, sm>>

\* GET /result, the menu or the quest list reads the user's last result
History_Get ==
    /\ IF results = <<>>
       THEN last' = <<>>
       ELSE \E row \in LastResult(results) : last' = <<row>>
    /\ pc' = "shown"
    /\ UNCHANGED <<gemini_available, request, raw, reply, results, outcome, progVars,
                   stepVars, kaiVars, sm>>

\* lines 1611 and 616: /reset and /account/delete remove the rows of the user
History_Reset ==
    /\ results # <<>>
    /\ results' = <<>>
    /\ pc' = "reset"
    /\ UNCHANGED <<gemini_available, request, raw, reply, outcome, last, progVars,
                   stepVars, kaiVars, sm>>

NextHistory == History_Post \/ History_Get \/ History_Reset

SpecHistory == InitHistory /\ [][NextHistory]_vars

(***************************************************************************)
(* Properties of POST /result                                               *)
(***************************************************************************)
\* the request has ended and stored its row
Stored == pc = "done" /\ outcome = "redirect" /\ Len(results) = 1

LastRow == results[Len(results)]

\* int() raises on the value the candidate holds for TypeKey k
ConversionFails(cand, k) == ~ToInt(CandGet(cand, k)).ok

\* C1: when the collaborator returned bonus_scores and the conversion of any
\* TypeKey's value raises, the stored bonus is 0 and the stored final score is the
\* raw score for all eight TypeKeys, those converted before the failing one included.
C1_AllOrNothing ==
    (pc = "done" /\ reply.kind = "bonus"
        /\ \E k \in TypeKeySet : ConversionFails(reply.cand, k))
    => /\ Stored
       /\ \A k \in TypeKeySet :
            /\ LastRow.bonus_scores[k] = 0
            /\ LastRow.scores[k] = LastRow.raw_scores[k]
            /\ LastRow.raw_scores[k] = raw[k]

\* sage converts to 3 before monk's value raises, and sage's bonus is stored as 0
C1_Witness ==
    /\ Stored
    /\ reply.kind = "bonus"
    /\ reply.cand["sage"] = PyInt(3)
    /\ reply.cand["monk"] = PyStr(<<"x">>)
    /\ LastRow.bonus_scores["sage"] = 0
    /\ LastRow.scores["sage"] = LastRow.raw_scores["sage"]

\* C2: every stored bonus is an integer in 0..5; when every value converts, a value
\* above 5 is stored as 5, a negative one as 0, one in range as itself, and a TypeKey
\* the candidate omits gets 0 while the others keep their clamped value.
C2_BonusRange ==
    /\ \A i \in 1..Len(results) : \A k \in TypeKeySet : results[i].bonus_scores[k] \in 0..5
    /\ (Stored /\ reply.kind = "bonus"
          /\ \A j \in TypeKeySet : ~ConversionFails(reply.cand, j))
       => \A k \in TypeKeySet :
            LET c == reply.cand[k]
                b == LastRow.bonus_scores[k]
            IN /\ c.t = "absent" => b = 0
               /\ (c.t = "int" /\ c.n > 5) => b = 5
               /\ (c.t = "int" /\ c.n < 0) => b = 0
               /\ (c.t = "int" /\ c.n \in 0..5) => b = c.n

\* sage: 9 is stored as 5, monk: -2 as 0, and the omitted priest as 0
C2_Witness ==
    /\ Stored
    /\ reply.kind = "bonus"
    /\ reply.cand["sage"] = PyInt(9)
    /\ reply.cand["monk"] = PyInt(0 - 2)
    /\ reply.cand["priest"] = PyAbsent
    /\ LastRow.bonus_scores["sage"] = 5
    /\ LastRow.bonus_scores["monk"] = 0
    /\ LastRow.bonus_scores["priest"] = 0

\* C3: in every stored row the three maps have exactly the eight TypeKeys as keys
\* and final = raw + bonus, hence final >= raw, for every TypeKey.
C3_FinalIsRawPlusBonus ==
    \A i \in 1..Len(results) :
        /\ DOMAIN results[i].scores = TypeKeySet
        /\ DOMAIN results[i].raw_scores = TypeKeySet
        /\ DOMAIN results[i].bonus_scores = TypeKeySet
        /\ \A k \in TypeKeySet :
             /\ results[i].scores[k] = results[i].raw_scores[k] + results[i].bonus_scores[k]
             /\ results[i].scores[k] >= results[i].raw_scores[k]

\* a row whose bonus was applied: mage's 3 is added to a raw score of 12
C3_Witness ==
    /\ Stored
    /\ reply.kind = "bonus"
    /\ LastRow.raw_scores["mage"] = 12
    /\ LastRow.bonus_scores["mage"] = 3
    /\ LastRow.scores["mage"] = 15

\* the position of TypeKey k in the canonical enumeration
KeyIndex(k) == CHOOSE i \in 1..Len(TYPE_KEYS) : TYPE_KEYS[i] = k

\* C4: the stored top_type has the maximal final score, and every TypeKey before it
\* in the canonical enumeration has a strictly smaller final score.
C4_TopTypeFirstMax ==
    \A i \in 1..Len(results) :
        LET row == results[i]
            t == row.top_type
        IN /\ t \in TypeKeySet
           /\ \A k \in TypeKeySet : row.scores[k] <= row.scores[t]
           /\ \A j \in 1..(KeyIndex(t) - 1) : row.scores[TYPE_KEYS[j]] < row.scores[t]

\* after a failed bonus application, monk..commander are tied above sage: monk wins
C4_Witness ==
    /\ Stored
    /\ reply.kind = "bonus"
    /\ \E k \in TypeKeySet : ConversionFails(reply.cand, k)
    /\ LastRow.top_type = "monk"
    /\ LastRow.scores["sage"] < LastRow.scores["monk"]
    /\ \A j \in 3..Len(TYPE_KEYS) : LastRow.scores[TYPE_KEYS[j]] = LastRow.scores["monk"]

\* the weight the questionnaire gives a label
Weight(label) ==
    CASE label = "yes" -> 3
      [] label = "maybe" -> 1
      [] label = "neutral" -> 1
      [] OTHER -> 0

RECURSIVE SumWeights(_, _)
SumWeights(form, qs) ==
    IF qs = {} THEN 0
    ELSE LET q == CHOOSE x \in qs : TRUE
         IN Weight(form[q]) + SumWeights(form, qs \ {q})

\* C5: the raw score of each TypeKey is the sum of the weights of the answers to
\* the questions assigned to it; every TypeKey is present with a value >= 0.
C5_RawIsWeightedSum ==
    [][pc = "received" =>
        /\ DOMAIN raw' = TypeKeySet
        /\ \A k \in TypeKeySet :
             /\ raw'[k] = SumWeights(request, {q \in 0..(NumQ - 1) : QUESTION_TYPES[q + 1] = k})
             /\ raw'[k] >= 0]_vars

\* all 32 questions answered yes: 12 for each TypeKey
C5_Witness ==
    /\ pc \in {"awaiting", "done"}
    /\ \A k \in TypeKeySet : raw[k] = 12

\* the collaborator gave nothing with a usable bonus_scores structure
NoUsableBonus ==
    \/ ~gemini_available
    \/ reply.kind \in OtherReplyKinds

\* C6: with the collaborator unavailable, failing, or returning something without
\* a usable bonus_scores structure, the request still ends normally with exactly
\* one stored row, bonus 0 and final = raw for every TypeKey.
C6_GracefulDegradation ==
    (pc = "done" /\ NoUsableBonus)
    => /\ outcome = "redirect"
       /\ Len(results) = 1
       /\ \A k \in TypeKeySet :
            /\ LastRow.bonus_scores[k] = 0
            /\ LastRow.scores[k] = LastRow.raw_scores[k]

(***************************************************************************)
(* Properties of the step normalization                                     *)
(***************************************************************************)
Kinds == {PyStr(TEXT), PyStr(GRID), PyStr(CHOICE)}

IsStepEntry(e) == e.t \in {"str", "dict"}

\* the entries of the payload that are a string or a record, in input order
KeptEntries == IF steps_json.t = "list" THEN SelectSeq(steps_json.items, IsStepEntry) ELSE <<>>

\* the first value of the aliases that Python takes as true, else the default
FirstOf(d, k1, k2, k3, default) ==
    IF Truthy(d[k1]) THEN d[k1]
    ELSE IF Truthy(d[k2]) THEN d[k2]
    ELSE IF Truthy(d[k3]) THEN d[k3]
    ELSE default

DeclaredKind(d) == FirstOf(d, "type", "step_type", "step_type", PyStr(TEXT))
DeclaredTitle(d) == FirstOf(d, "title", "step_title", "label", PyStr(<<>>))

\* C7: a canonical step of kind grid has positive gridRows and gridCols, and one of
\* kind choice has non-empty options, also for records that declare their kind.
C7_KindWellFormed ==
    \A i \in 1..Len(normalized_steps) :
        LET st == normalized_steps[i]
        IN /\ st.type = PyStr(GRID) => (st.grid_rows > 0 /\ st.grid_cols > 0)
           /\ st.type = PyStr(CHOICE) => st.options # <<>>

\* C8: the kind of every canonical step is text, grid or choice, and a record whose
\* declared kind is any other value yields text, whatever options or grid
\* dimensions it carries.
C8_KindClosed ==
    /\ \A i \in 1..Len(normalized_steps) : normalized_steps[i].type \in Kinds
    /\ spc = "normalized" =>
         \A i \in 1..Len(KeptEntries) :
            (KeptEntries[i].t = "dict" /\ DeclaredKind(KeptEntries[i].d) \notin Kinds)
            => (i <= Len(normalized_steps) /\ normalized_steps[i].type = PyStr(TEXT))

\* a record of an unknown kind with options and positive dimensions becomes text
C8_Witness ==
    /\ spc = "normalized"
    /\ Len(steps_json.items) = 1
    /\ steps_json.items[1].t = "dict"
    /\ steps_json.items[1].d["type"] = PyStr(<<"q">>)
    /\ Len(normalized_steps) = 1
    /\ normalized_steps[1].type = PyStr(TEXT)
    /\ normalized_steps[1].options # <<>>
    /\ normalized_steps[1].grid_rows > 0

\* C9: a payload that is no list yields no step; a list yields one step per entry
\* that is a string or a record, in input order, the other entries being skipped;
\* a bare string s yields {title: s, kind: text, gridRows: 0, gridCols: 0, options: []}.
C9_OneStepPerEntry ==
    spc = "normalized" =>
        /\ steps_json.t # "list" => normalized_steps = <<>>
        /\ Len(normalized_steps) = Len(KeptEntries)
        /\ \A i \in 1..Len(KeptEntries) :
             LET e == KeptEntries[i]
                 st == normalized_steps[i]
             IN /\ e.t = "str" =>
                     st = [title |-> PyStr(e.s), type |-> PyStr(TEXT), grid_rows |-> 0,
                           grid_cols |-> 0, options |-> <<>>]
                /\ e.t = "dict" => st.title = DeclaredTitle(e.d)

\* a number before a string: the number is skipped and the string is the only step
C9_Witness ==
    /\ spc = "normalized"
    /\ Len(steps_json.items) = 2
    /\ steps_json.items[1].t = "int"
    /\ steps_json.items[2].t = "str"
    /\ normalized_steps = <<[title |-> PyStr(steps_json.items[2].s), type |-> PyStr(TEXT),
                             grid_rows |-> 0, grid_cols |-> 0, options |-> <<>>]>>

(***************************************************************************)
(* Properties of find_similar_kai                                           *)
(***************************************************************************)
\* the similarities of the rows' names to the trimmed candidate, in row order
RECURSIVE SimsFrom(_, _)
SimsFrom(i, nm) ==
    IF i > Len(logs) THEN <<>>
    ELSE <<_similarity(logs[i].name, nm)>> \o SimsFrom(i + 1, nm)

Sims == SimsFrom(1, Strip(kai_name))

\* i is the first row whose similarity is the greatest of sims
FirstGreatest(sims, i) ==
    /\ \A j \in 1..Len(sims) : RatGE(sims[i], sims[j])
    /\ \A j \in 1..(i - 1) : RatGT(sims[i], sims[j])

\* the first row of the greatest similarity is returned if that similarity is
\* at least low and th, and None otherwise
ReturnsFirstGreatest(sims, th, low, strictly) ==
    IF Strip(kai_name) # <<>>
         /\ \E i \in 1..Len(sims) :
              /\ FirstGreatest(sims, i)
              /\ RatGE(sims[i], th)
              /\ (IF strictly THEN RatGT(sims[i], low) ELSE RatGE(sims[i], low))
    THEN found # 0 /\ FirstGreatest(sims, found)
    ELSE found = 0

\* C10 as claimed: for a non-blank name, the first row of the greatest similarity
\* is returned if and only if that similarity is >= threshold; None in every other case.
C10_FirstGreatestIffThreshold ==
    kpc = "returned" => ReturnsFirstGreatest(Sims, threshold, <<0, 1>>, FALSE)

\* C10 as amended: the first row of the greatest similarity is returned if and only
\* if that similarity is >= threshold and greater than 0.
C10_FirstGreatestIffPositive ==
    kpc = "returned" => ReturnsFirstGreatest(Sims, threshold, <<0, 1>>, TRUE)

\* two rows of different names tie at the greatest similarity, which reaches the
\* threshold: the first is returned, for a name that had to be trimmed
C10_Witness ==
    /\ kpc = "returned"
    /\ Len(logs) = 2
    /\ logs[1].name # logs[2].name
    /\ Sims[1] = Sims[2]
    /\ kai_name # Strip(kai_name)
    /\ RatGT(threshold, <<0, 1>>)
    /\ found = 1

(***************************************************************************)
(* Properties of the quest progress                                         *)
(***************************************************************************)
\* request p of method m commits its transition in this step
Commits(p, m) ==
    /\ p \in DOMAIN reqs
    /\ reqs[p].pc = "loaded"
    /\ reqs[p].method = m
    /\ reqs'[p].pc = "idle"

\* request p of method m takes a step
Steps(p, m) ==
    /\ p \in DOMAIN reqs
    /\ reqs'[p] # reqs[p]
    /\ (IF reqs[p].pc = "idle" THEN reqs'[p].method ELSE reqs[p].method) = m

\* C11: a GET of a quest whose progress is not_started makes it in_progress and sets
\* started_at; a GET of a quest whose progress is in_progress or completed leaves
\* the row as it is, and no step of a GET changes any other row.
C11_OpenOnce ==
    [][\A p \in 1..NumRequests :
         Steps(p, "GET") =>
           \A i \in 1..Len(progress) :
             LET b == progress[i]
                 a == progress'[i]
             IN IF Commits(p, "GET") /\ b.id = reqs[p].id /\ b.status = "not_started"
                THEN /\ a.status = "in_progress"
                     /\ a.started_at = now
                     /\ a.started_at # NoTime
                     /\ a.completed_at = b.completed_at
                ELSE a = b]_vars

\* a GET was answered that had found the quest completed, and the row still is
\* completed with both of its times
C11_Witness ==
    /\ served.method = "GET"
    /\ served.status = "completed"
    /\ ~served.created
    /\ Len(progress) = 1
    /\ progress[1].status = "completed"
    /\ progress[1].started_at # NoTime
    /\ progress[1].completed_at # NoTime

\* C12: a POST leaves status completed and completed_at at the time of the call,
\* from any prior state and with or without feedback; started_at becomes the time
\* of the call only if it was unset, so a repeated POST changes completed_at alone.
C12_CompleteAlways ==
    [][\A p \in 1..NumRequests :
         Commits(p, "POST") =>
           LET i == RowIndex(progress, reqs[p].id)
               b == progress[i]
               a == progress'[i]
           IN /\ a.status = "completed"
              /\ a.completed_at \in now..now'
              /\ a.completed_at = now'
              /\ IF b.started_at = NoTime
                 THEN a.started_at \in now..now'
                 ELSE a.started_at = b.started_at
              /\ a.id = b.id /\ a.quest_id = b.quest_id
              /\ b.status = "completed" => a = [b EXCEPT !.completed_at = now']]_vars

\* a POST without feedback was answered that had found the quest completed; it
\* moved completed_at past started_at
C12_Witness ==
    /\ served.method = "POST"
    /\ served.status = "completed"
    /\ ~served.feedback
    /\ Len(progress) = 1
    /\ progress[1].status = "completed"
    /\ progress[1].started_at # NoTime
    /\ progress[1].completed_at > progress[1].started_at

\* C13: a row whose status is completed keeps that status in every step that
\* does not delete it, also when a GET and a POST of the same quest interleave.
C13_CompletedIsFinal ==
    [][\A i \in 1..Len(progress) :
         (/\ progress[i].status = "completed"
          /\ i <= Len(progress')
          /\ progress'[i].id = progress[i].id)
         => progress'[i].status = "completed"]_vars

\* C14: no quest has two progress rows, also when two requests look the row up
\* before either of them inserts it.
C14_OneRowPerQuest ==
    \A q \in 1..NumQuests : Cardinality(Matching(progress, q)) <= 1

(***************************************************************************)
(* Properties of the KaiLog rows                                            *)
(***************************************************************************)
\* C15: with the requests served one at a time, no two KaiLog rows of the user
\* hold the same name.
C15_NoExactDuplicate ==
    \A i, j \in 1..Len(logs) : logs[i].name = logs[j].name => i = j

\* journal_save met a phrase equal to the name of a row and counted it on that
\* row, which stands after a row of a close name
C15_Witness ==
    /\ kai_op.op = "journal_save"
    /\ kai_op.exact
    /\ Len(logs) = 2
    /\ logs[1].name = <<"a", "b", "b">>
    /\ logs[1].count = 1
    /\ logs[2].name = <<"a", "b">>
    /\ logs[2].count = 3

(***************************************************************************)
(* Properties of _similarity                                                *)
(***************************************************************************)
\* C16: _similarity(a, b) = _similarity(b, a) for every pair of strings.
C16_Symmetric ==
    sm.pc = "compared" => (sm.ab[1] * sm.ba[2] = sm.ba[1] * sm.ab[2])

(***************************************************************************)
(* Properties of the DiagnosisResult rows                                   *)
(***************************************************************************)
\* C17: every POST /result adds exactly one row and leaves the rows stored before
\* as they were; no other step changes a row, rows go only by reset or account
\* deletion, and the last result a page reads is the row created last.
C17_OneNewRowPerSubmission ==
    [][/\ pc' = "posted" =>
            /\ Len(results') = Len(results) + 1
            /\ SubSeq(results', 1, Len(results)) = results
       /\ pc' = "shown" =>
            /\ results' = results
            /\ results # <<>> => last' = <<results[Len(results)]>>
       /\ pc' = "reset" => results' = <<>>]_vars

(***************************************************************************)
(* Further properties of the step normalization                             *)
(***************************************************************************)
\* C18: for a record whose declared kind is text or absent, non-empty options make
\* the step a choice step also when both grid dimensions are positive; the step is
\* a grid step only with empty options and two positive dimensions, and a text
\* step otherwise. A record that declares grid or choice keeps its kind.
C18_OptionsBeforeGrid ==
    spc = "normalized" =>
        \A i \in 1..Len(KeptEntries) :
            KeptEntries[i].t = "dict" =>
                LET declared == DeclaredKind(KeptEntries[i].d)
                    st == normalized_steps[i]
                IN /\ declared = PyStr(TEXT) =>
                        st.type = (IF st.options # <<>> THEN PyStr(CHOICE)
                                   ELSE IF st.grid_rows > 0 /\ st.grid_cols > 0
                                        THEN PyStr(GRID)
                                   ELSE PyStr(TEXT))
                   /\ declared \in {PyStr(GRID), PyStr(CHOICE)} => st.type = declared

\* a record that declares no kind and carries options and two positive dimensions
\* became a choice step
C18_Witness ==
    /\ spc = "normalized"
    /\ Len(steps_json.items) = 1
    /\ steps_json.items[1].t = "dict"
    /\ DeclaredKind(steps_json.items[1].d) = PyStr(TEXT)
    /\ ~Truthy(steps_json.items[1].d["type"])
    /\ Len(normalized_steps) = 1
    /\ normalized_steps[1].options # <<>>
    /\ normalized_steps[1].grid_rows > 0
    /\ normalized_steps[1].grid_cols > 0
    /\ normalized_steps[1].type = PyStr(CHOICE)

\* C19: gridRows and gridCols of every canonical step are >= 0, whatever the raw
\* value was.
C19_DimensionsNonNegative ==
    \A i \in 1..Len(normalized_steps) :
        normalized_steps[i].grid_rows >= 0 /\ normalized_steps[i].grid_cols >= 0

\* C20: every element of the options of a canonical step is a non-empty string,
\* also when the options were given as a list.
C20_OptionsNonEmpty ==
    \A i \in 1..Len(normalized_steps) :
        \A k \in 1..Len(normalized_steps[i].options) :
            normalized_steps[i].options[k] # <<>>

(***************************************************************************)
(* Properties of the journal batch                                          *)
(***************************************************************************)
\* the sum of the counts of the rows
RECURSIVE SumCounts(_)
SumCounts(rows) ==
    IF rows = <<>> THEN 0 ELSE Head(rows).count + SumCounts(Tail(rows))

\* the similarity of the name of an entry and a phrase reaches 0.7
Close(entry_name, phrase) == RatGE(_similarity(entry_name, phrase), <<7, 10>>)

\* no row is close to a phrase of the list
NoneClose(rows, kai_list) ==
    \A r \in 1..Len(rows), i \in 1..Len(kai_list) : ~Close(rows[r].name, kai_list[i])

\* every phrase of the list is close to the first one, taken as the name of an entry
AllCloseToFirst(kai_list) ==
    \A i \in 1..Len(kai_list) : Close(kai_list[1], kai_list[i])

\* C21: when journal_save handles a form with a content, the sum of the counts
\* grows by the number of non-blank phrases; and when every phrase is close to
\* the first one and no row was close to any of them, the rows gain exactly one
\* row, of the first phrase, whose count is the number of phrases.
C21_BatchCollapses ==
    [][(journal.pc = "posted" /\ journal'.pc = "saved" /\ journal.content) =>
         LET kai_list == StripNonEmpty(journal.parsed)
         IN /\ SumCounts(logs') = SumCounts(logs) + Len(kai_list)
            /\ (kai_list # <<>> /\ AllCloseToFirst(kai_list) /\ NoneClose(logs, kai_list)) =>
                 logs' = Append(logs, [id |-> Len(logs) + 1, name |-> kai_list[1],
                                       count |-> Len(kai_list)])]_vars

\* a form of two different close phrases was handled while a row of a far name
\* existed: the last row holds the first phrase with count 2
C21_Witness ==
    /\ journal.pc = "saved"
    /\ journal.content
    /\ LET kai_list == StripNonEmpty(journal.parsed)
       IN /\ Len(kai_list) >= 2
          /\ kai_list[1] # kai_list[2]
          /\ AllCloseToFirst(kai_list)
          /\ Len(logs) >= 2
          /\ logs[Len(logs)].name = kai_list[1]
          /\ logs[Len(logs)].count = Len(kai_list)
          /\ NoneClose(SubSeq(logs, 1, Len(logs) - 1), kai_list)

(***************************************************************************)
(* Properties of the kai requests served at once                            *)
(***************************************************************************)
\* C22: a request that incremented a row once and commits leaves the count of
\* the row one higher than it was just before the commit, whatever the other
\* requests did since it read the count; so n such requests raise it by n.
C22_NoLostUpdate ==
    [][\A p \in 1..NumRequests :
         (kreqs[p].pc = "loaded" /\ kreqs'[p].pc = "idle") =>
            \A u \in kreqs[p].updates :
                u.count = u.read + 1 => logs'[u.id].count = logs[u.id].count + 1]_vars

(***************************************************************************)
(* Properties of the progress rows, the requests served one at a time       *)
(***************************************************************************)
\* the status of a row agrees with its two times
WellFormedProgress(row) ==
    /\ row.status \in {"not_started", "in_progress", "completed"}
    /\ row.status = "not_started" =>
         row.started_at = NoTime /\ row.completed_at = NoTime
    /\ row.status = "in_progress" =>
         row.started_at # NoTime /\ row.completed_at = NoTime
    /\ row.status = "completed" =>
         /\ row.started_at # NoTime
         /\ row.completed_at # NoTime
         /\ row.started_at <= row.completed_at

\* C23: with the requests served one at a time, every progress row is
\* not_started with no time set, or in_progress with started_at alone set, or
\* completed with both set and started_at <= completed_at; and a started_at
\* that is set stays as it is for as long as the row exists.
C23_ProgressWellFormed ==
    /\ [](\A i \in 1..Len(progress) : WellFormedProgress(progress[i]))
    /\ [][\A i \in 1..Len(progress) :
            (/\ progress[i].started_at # NoTime
             /\ i <= Len(progress')
             /\ progress'[i].id = progress[i].id)
            => progress'[i].started_at = progress[i].started_at]_vars

\* a POST was answered that had found the quest in progress: the row is completed
\* and its completed_at is later than the started_at the GET had set
C23_Witness ==
    /\ served.method = "POST"
    /\ served.status = "in_progress"
    /\ Len(progress) = 1
    /\ progress[1].status = "completed"
    /\ progress[1].started_at # NoTime
    /\ progress[1].started_at < progress[1].completed_at

====
